---- MODULE Spec2Model ----
(***************************************************************************)
(* chalk-engine: the forest-wide table registry (tables.rs), the           *)
(* structural invalidation checker MayInvalidate and the unification step  *)
(* unify_generic_args_into_ex_clause (slg.rs).                             *)
(***************************************************************************)
EXTENDS Integers, Sequences, FiniteSets, TLC

VARIABLES
  tables,         \* Tables.tables: Vec<Table<C>>
  table_indices,  \* Tables.table_indices: FxHashMap<goal, TableIndex>
  op,             \* the registry operation that ran last
  ret,            \* what that operation returned
  after_next,     \* the operation before the last one was next_index
  inserted,       \* history: the insert calls so far, in order
  mutated,        \* history: a record has been written through IndexMut
  aborted,        \* an out-of-range indexed access has panicked
  new,            \* may_invalidate: self, the prospective substitution
  current,        \* may_invalidate: subst.value, the aggregated substitution
  mi_pc,          \* may_invalidate: "ready" before the call, "done" after
  mi_result,      \* may_invalidate: the outcome of the call
  ex_clause,      \* the ExClause handed to unify_generic_args_into_ex_clause
  u_before,       \* history: the ExClause as it was before the last call
  u_unified,      \* history: what infer.unify gave in the last call
  u_ret,          \* what the last call returned: "Ok", "Err" or "panic"
  selected        \* what next_subgoal_index gave for ex_clause, if called

tvars == <<tables, table_indices, op, ret, after_next, inserted, mutated,
           aborted>>

mvars == <<new, current, mi_pc, mi_result>>

uvars == <<ex_clause, u_before, u_unified, u_ret, selected>>

vars == <<tvars, mvars, uvars>>

-----------------------------------------------------------------------------
(* Bounds *)

\* the registry holds at most this many records in a checked run
MaxTables == 3

\* canonical goals (C::UCanonicalGoalInEnvironment), the keys of the registry
Goals == {"g1", "g2", "g3"}

\* the solving state a record carries beside its goal (answers, strands)
TableStates == {"fresh", "answered"}

-----------------------------------------------------------------------------
(* Values *)

\* Table<C>: the goal the table is keyed by, and its solving state
Table == [table_goal : Goals, state : TableStates]

TableIndex(n) == [value |-> n]

Some(v) == [tag |-> "Some", val |-> v]

None == [tag |-> "None"]

Unit == [tag |-> "unit"]

-----------------------------------------------------------------------------
(* tables.rs *)

\* FxHashMap::insert: the entry of key k is set to v, an old entry replaced
MapInsert(m, k, v) ==
  [x \in (DOMAIN m) \cup {k} |-> IF x = k THEN v ELSE m[x]]

\* FxHashMap::get(..).cloned()
MapGet(m, k) == IF k \in DOMAIN m THEN Some(m[k]) ELSE None

\* Tables::next_index
NextIndex(ts) == TableIndex(Len(ts))

\* Tables::insert as a function of the registry: the registry after the call
\* and the index returned
InsertResult_IndexAfterPush(ts, tis, table) ==
  LET goal   == table.table_goal
      pushed == Append(ts, table)
      index  == NextIndex(pushed)
  IN  [tables |-> pushed, table_indices |-> MapInsert(tis, goal, index),
       index |-> index]

InsertResult_KeepOldEntry(ts, tis, table) ==
  LET goal  == table.table_goal
      index == NextIndex(ts)
  IN  [tables |-> Append(ts, table),
       table_indices |-> IF goal \in DOMAIN tis THEN tis
                         ELSE MapInsert(tis, goal, index),
       index |-> index]

InsertResult_Dedup(ts, tis, table) ==
  LET goal  == table.table_goal
      index == NextIndex(ts)
  IN  IF goal \in DOMAIN tis
      THEN [tables |-> ts, table_indices |-> tis, index |-> tis[goal]]
      ELSE [tables |-> Append(ts, table),
            table_indices |-> MapInsert(tis, goal, index),
            index |-> index]

InsertResult_PushFront(ts, tis, table) ==
  LET goal  == table.table_goal
      index == NextIndex(ts)
  IN  [tables |-> <<table>> \o ts,
       table_indices |-> MapInsert(tis, goal, index),
       index |-> index]

InsertResult(ts, tis, table) ==
  LET goal  == table.table_goal
      index == NextIndex(ts)
  IN  [tables |-> Append(ts, table),
       table_indices |-> MapInsert(tis, goal, index),
       index |-> index]

\* Tables::index_of
IndexOf_FirstMatch(ts, tis, literal) ==
  IF \E i \in 1..Len(ts) : ts[i].table_goal = literal
  THEN Some(TableIndex(0))
  ELSE None

IndexOf(ts, tis, literal) == MapGet(tis, literal)

\* Index<TableIndex>::index and IndexMut::index_mut: &self.tables[index.value]
InRange(ts, index) == index.value < Len(ts)

TableAt(ts, index) == ts[index.value + 1]

\* the invalidation checker and the unification step at rest
InvalidateIdle ==
  /\ new = <<>>
  /\ current = <<>>
  /\ mi_pc = "idle"
  /\ mi_result = "none"

UnifyIdle ==
  /\ ex_clause = [constraints |-> {}, subgoals |-> <<>>]
  /\ u_before = [constraints |-> {}, subgoals |-> <<>>]
  /\ u_unified = [tag |-> "none"]
  /\ u_ret = "none"
  /\ selected = [tag |-> "none"]

\* Tables::new
TablesNew ==
  /\ tables = <<>>
  /\ table_indices = <<>>
  /\ op = "new"
  /\ ret = Unit
  /\ after_next = FALSE
  /\ inserted = <<>>
  /\ mutated = FALSE
  /\ aborted = FALSE

NextIndexCall ==
  /\ ~aborted
  /\ op' = "next_index"
  /\ after_next' = (op = "next_index")
  /\ ret' = NextIndex(tables)
  /\ UNCHANGED <<tables, table_indices, inserted, mutated, aborted>>
  /\ UNCHANGED <<mvars, uvars>>

InsertCall(table) ==
  /\ ~aborted
  /\ Len(tables) < MaxTables
  /\ LET r == InsertResult(tables, table_indices, table)
     IN  /\ tables' = r.tables
         /\ table_indices' = r.table_indices
         /\ ret' = r.index
         /\ inserted' = Append(inserted,
                          [table |-> table, index |-> r.index,
                           miss |-> IndexOf(tables, table_indices,
                                            table.table_goal) = None])
  /\ op' = "insert"
  /\ after_next' = (op = "next_index")
  /\ UNCHANGED <<mutated, aborted>>
  /\ UNCHANGED <<mvars, uvars>>

IndexOfCall(literal) ==
  /\ ~aborted
  /\ op' = "index_of"
  /\ after_next' = (op = "next_index")
  /\ ret' = IndexOf(tables, table_indices, literal)
  /\ UNCHANGED <<tables, table_indices, inserted, mutated, aborted>>
  /\ UNCHANGED <<mvars, uvars>>

\* registry[index]: a read of the record at the index; out of range panics
IndexCall(index) ==
  /\ ~aborted
  /\ op' = "index"
  /\ after_next' = (op = "next_index")
  /\ IF InRange(tables, index)
     THEN ret' = Some(TableAt(tables, index)) /\ UNCHANGED aborted
     ELSE ret' = Unit /\ aborted' = TRUE
  /\ UNCHANGED <<tables, table_indices, inserted, mutated>>
  /\ UNCHANGED <<mvars, uvars>>

\* registry[index] through IndexMut: the caller updates the solving state of
\* the record at the index in place; out of range panics
IndexMutCall(index, state) ==
  /\ ~aborted
  /\ op' = "index_mut"
  /\ after_next' = (op = "next_index")
  /\ IF InRange(tables, index)
     THEN /\ tables' = [tables EXCEPT ![index.value + 1].state = state]
          /\ mutated' = TRUE
          /\ ret' = Unit
          /\ UNCHANGED aborted
     ELSE /\ ret' = Unit
          /\ aborted' = TRUE
          /\ UNCHANGED <<tables, mutated>>
  /\ UNCHANGED <<table_indices, inserted>>
  /\ UNCHANGED <<mvars, uvars>>

Indices == {TableIndex(n) : n \in 0..MaxTables}

NextTables ==
  \/ NextIndexCall
  \/ \E table \in Table : InsertCall(table)
  \/ \E literal \in Goals : IndexOfCall(literal)
  \/ \E index \in Indices : IndexCall(index)
  \/ \E index \in Indices, state \in TableStates : IndexMutCall(index, state)

InitTables == TablesNew /\ InvalidateIdle /\ UnifyIdle

SpecTables == InitTables /\ [][NextTables]_vars

-----------------------------------------------------------------------------
(* The registry: claims *)

GoalAt(i) == tables[i].table_goal

\* no two stored records share a goal
DistinctGoals ==
  \A i, j \in 1..Len(tables) : GoalAt(i) = GoalAt(j) => i = j

\* every entry of the index map points at a record whose goal is its key
EntriesPointAtOwnGoal ==
  \A g \in DOMAIN table_indices :
    /\ InRange(tables, table_indices[g])
    /\ TableAt(tables, table_indices[g]).table_goal = g

\* every stored record has the entry of its goal pointing at its position
RecordsHaveOwnEntry ==
  \A i \in 1..Len(tables) :
    /\ GoalAt(i) \in DOMAIN table_indices
    /\ table_indices[GoalAt(i)] = TableIndex(i - 1)

\* the position of the last record stored for goal g
LastPositionOf(g) ==
  CHOOSE i \in 1..Len(tables) :
    /\ GoalAt(i) = g
    /\ \A j \in 1..Len(tables) : GoalAt(j) = g => j <= i

\* C1 as claimed: in every reachable state, inserts of an already registered
\* goal included, the index map and the record sequence are a bijection:
\* every record at position i has the entry of its goal with value i, and
\* every entry points at a record whose goal is its key.
C1_Bijection == EntriesPointAtOwnGoal /\ RecordsHaveOwnEntry

\* C1 as amended: in every reachable state every entry of the index map
\* points at a stored record whose goal is its key, every stored record's
\* goal has an entry, and that entry points at the last record stored for
\* the goal; the map and the sequence are a bijection in every state in
\* which no two stored records share a goal.
C1_EntryIsLastRecordOfGoal ==
  /\ EntriesPointAtOwnGoal
  /\ \A i \in 1..Len(tables) :
       /\ GoalAt(i) \in DOMAIN table_indices
       /\ table_indices[GoalAt(i)] = TableIndex(LastPositionOf(GoalAt(i)) - 1)
  /\ DistinctGoals <=> C1_Bijection

\* a goal inserted twice: its entry points at the second record
C1_Witness ==
  /\ Len(tables) = 3
  /\ GoalAt(1) = GoalAt(3)
  /\ GoalAt(2) # GoalAt(1)
  /\ table_indices[GoalAt(1)] = TableIndex(2)

InsertedGoal(k) == inserted[k].table.table_goal

InsertedDistinct ==
  \A i, j \in 1..Len(inserted) : InsertedGoal(i) = InsertedGoal(j) => i = j

\* C2: after inserts of pairwise distinct goals g_0..g_{n-1} on a fresh
\* registry, index_of(g_i) is Some(i), registry[i] is the record inserted
\* for g_i, and index_of(c) is None for every goal c never inserted.
C2_DistinctInsertsIndexed ==
  InsertedDistinct =>
    /\ \A k \in 1..Len(inserted) :
         /\ IndexOf(tables, table_indices, InsertedGoal(k))
              = Some(TableIndex(k - 1))
         /\ InRange(tables, TableIndex(k - 1))
         /\ TableAt(tables, TableIndex(k - 1)).table_goal = InsertedGoal(k)
         /\ ~mutated => TableAt(tables, TableIndex(k - 1)) = inserted[k].table
    /\ \A c \in Goals :
         (\A k \in 1..Len(inserted) : InsertedGoal(k) # c)
           => IndexOf(tables, table_indices, c) = None

\* two distinct goals inserted, a third never inserted, and index_of asked
C2_Witness ==
  /\ InsertedDistinct
  /\ Len(inserted) = 2
  /\ ~mutated
  /\ op = "index_of"
  /\ ret = None

\* C3: next_index leaves the record sequence and the index map as they
\* were, and an insert that follows a next_index returns the index that
\* next_index returned, whatever record is inserted.
C3_NextIndexPureAndPredicts ==
  [][ /\ op' = "next_index"
        => tables' = tables /\ table_indices' = table_indices
      /\ (op = "next_index" /\ op' = "insert") => ret' = ret
    ]_vars

\* an insert into a registry of two records, right after a next_index
C3_Witness ==
  /\ op = "insert"
  /\ after_next
  /\ Len(tables) = 3
  /\ ret = TableIndex(2)

\* C4: no step of next_index, insert, index_of or indexed access removes a
\* record or moves one: the number of records never decreases, every
\* position keeps its goal, and every index an insert has returned still
\* denotes the record of the goal that insert stored.
C4_GrowsNeverReorders ==
  [][ /\ Len(tables') >= Len(tables)
      /\ \A i \in 1..Len(tables) : tables'[i].table_goal = tables[i].table_goal
      /\ \A k \in 1..Len(inserted') :
           /\ InRange(tables', inserted'[k].index)
           /\ TableAt(tables', inserted'[k].index).table_goal
                = inserted'[k].table.table_goal
    ]_vars

\* an index handed out by the first insert, used after two more inserts and
\* a write through IndexMut
C4_Witness ==
  /\ Len(tables) = 3
  /\ mutated
  /\ op = "index"
  /\ ret = Some(TableAt(tables, inserted[1].index))

\* the registry followed the protocol: every insert came after a miss
ProtocolFollowed == \A k \in 1..Len(inserted) : inserted[k].miss

\* C5: insert never deduplicates: every insert, of a registered goal too,
\* appends a record under a new index, and every record stays reachable at
\* the index its insert returned; when every insert followed a miss of
\* index_of, no two stored records share a goal and index_of of a stored
\* goal is the index its one insert returned.
C5_NoDedupProtocolDedups ==
  /\ Len(tables) = Len(inserted)
  /\ \A k \in 1..Len(inserted) :
       /\ inserted[k].index = TableIndex(k - 1)
       /\ InRange(tables, inserted[k].index)
       /\ TableAt(tables, inserted[k].index).table_goal = InsertedGoal(k)
  /\ ProtocolFollowed =>
       /\ DistinctGoals
       /\ \A k \in 1..Len(inserted) :
            IndexOf(tables, table_indices, InsertedGoal(k))
              = Some(inserted[k].index)
  /\ ~ProtocolFollowed => ~DistinctGoals

\* a goal inserted a second time without a lookup: two live records, two
\* indices
C5_Witness ==
  /\ Len(tables) = 2
  /\ GoalAt(1) = GoalAt(2)
  /\ ~ProtocolFollowed
  /\ inserted[1].index # inserted[2].index
  /\ op = "insert"

-----------------------------------------------------------------------------
(* slg.rs: the term model the invalidation checker reads *)

\* substitutions and nominal heads' argument lists hold at most this many
\* generic arguments in a checked run
MaxSubstLen == 2

\* TyKind
BoundVar(i) == [kind |-> "BoundVar", index |-> i]

InferenceVar(i) == [kind |-> "InferenceVar", index |-> i]

Placeholder(i) == [kind |-> "Placeholder", index |-> i]

Scalar(s) == [kind |-> "Scalar", val |-> s]

Str == [kind |-> "Str"]

Never == [kind |-> "Never"]

\* a type for which aggregate_tys has no arm of its own (fn pointer)
Function == [kind |-> "Function"]

Foreign(id) == [kind |-> "Foreign", name |-> id]

\* the types made of a name and a substitution: Adt, AssociatedType, Tuple,
\* OpaqueType, FnDef, Closure, Generator, GeneratorWitness, and the aliases
Applied(k, id, subst) == [kind |-> k, name |-> id, substitution |-> subst]

Adt(id, subst) == Applied("Adt", id, subst)

Tuple(subst) == Applied("Tuple", Len(subst), subst)

Slice(ty) == [kind |-> "Slice", ty |-> ty]

Ref(m, lifetime, ty) ==
  [kind |-> "Ref", mutability |-> m, lifetime |-> lifetime, ty |-> ty]

Raw(m, ty) == [kind |-> "Raw", mutability |-> m, ty |-> ty]

Array(ty, c) == [kind |-> "Array", ty |-> ty, const |-> c]

NameAndSubstsKinds ==
  {"Adt", "AssociatedType", "Tuple", "OpaqueType", "FnDef", "Closure",
   "Generator", "GeneratorWitness", "AliasProjection", "AliasOpaque"}

\* Lifetime
Static == [kind |-> "Static"]

\* ConstData and ConstValue
Const(ty, value) == [ty |-> ty, value |-> value]

Concrete(v) == [kind |-> "Concrete", val |-> v]

\* GenericArgData
TyArg(ty) == [arg |-> "Ty", ty |-> ty]

LifetimeArg(l) == [arg |-> "Lifetime", lifetime |-> l]

ConstArg(c) == [arg |-> "Const", const |-> c]

\* the three outcomes of a comparison: the two booleans and the panic
Yes == "true"

No == "false"

Panic == "panic"

Bool(b) == IF b THEN Yes ELSE No

\* a || b and the closure of Iterator::any: b is evaluated only when a is
\* false, and a panic in a ends the evaluation
OrElse(a, b) == IF a = No THEN b ELSE a

\* ConcreteConst::const_eq: the term model's equality of two concrete
\* constants of one type
ConstEq(ty, c1, c2) == c1.val = c2.val

-----------------------------------------------------------------------------
(* slg.rs: MayInvalidate *)

RECURSIVE AggregateGenericArgs(_, _)
RECURSIVE AggregateTys(_, _)
RECURSIVE AggregateConsts(_, _)
RECURSIVE AggregateNameAndSubsts(_, _, _, _)
RECURSIVE AnyPair(_, _, _)

\* .iter().zip(..).any(|(new, current)| aggregate_generic_args(new, current))
\* from position i on
AnyPair(news, currents, i) ==
  IF i > Len(news) \/ i > Len(currents)
  THEN No
  ELSE OrElse(AggregateGenericArgs(news[i], currents[i]),
              AnyPair(news, currents, i + 1))

\* MayInvalidate::aggregate_generic_args
AggregateGenericArgs_MismatchIsTrue(n, c) ==
  IF n.arg = "Ty" /\ c.arg = "Ty" THEN AggregateTys(n.ty, c.ty)
  ELSE IF n.arg = "Lifetime" /\ c.arg = "Lifetime" THEN Yes
  ELSE IF n.arg = "Const" /\ c.arg = "Const"
       THEN AggregateConsts(n.const, c.const)
  ELSE Yes

\* MayInvalidate::aggregate_lifetimes
AggregateLifetimes_Structural(l1, l2) == Bool(l1 # l2)

AggregateLifetimes(l1, l2) == Yes

AggregateGenericArgs(n, c) ==
  IF n.arg = "Ty" /\ c.arg = "Ty" THEN AggregateTys(n.ty, c.ty)
  ELSE IF n.arg = "Lifetime" /\ c.arg = "Lifetime"
       THEN AggregateLifetimes(n.lifetime, c.lifetime)
  ELSE IF n.arg = "Const" /\ c.arg = "Const"
       THEN AggregateConsts(n.const, c.const)
  ELSE Panic

\* MayInvalidate::aggregate_placeholders
AggregatePlaceholders(p1, p2) == Bool(p1 # p2)

\* MayInvalidate::aggregate_tys, arm by arm in the order of the match
AggregateTys(n, c) ==
  IF c.kind = "BoundVar" THEN No
  ELSE IF n.kind = "BoundVar" THEN Yes
  ELSE IF n.kind = "InferenceVar" \/ c.kind = "InferenceVar" THEN Panic
  ELSE IF n.kind = "Placeholder" /\ c.kind = "Placeholder"
       THEN AggregatePlaceholders(n.index, c.index)
  ELSE IF n.kind = c.kind /\ n.kind \in NameAndSubstsKinds
       THEN AggregateNameAndSubsts(n.name, n.substitution,
                                   c.name, c.substitution)
  ELSE IF n.kind = "Scalar" /\ c.kind = "Scalar" THEN Bool(n.val # c.val)
  ELSE IF n.kind = "Str" /\ c.kind = "Str" THEN No
  ELSE IF n.kind = "Slice" /\ c.kind = "Slice" THEN AggregateTys(n.ty, c.ty)
  ELSE IF n.kind = "Ref" /\ c.kind = "Ref"
       THEN OrElse(Bool(n.mutability # c.mutability),
                   OrElse(AggregateLifetimes(n.lifetime, c.lifetime),
                          AggregateTys(n.ty, c.ty)))
  ELSE IF n.kind = "Raw" /\ c.kind = "Raw"
       THEN OrElse(Bool(n.mutability # c.mutability),
                   AggregateTys(n.ty, c.ty))
  ELSE IF n.kind = "Never" /\ c.kind = "Never" THEN No
  ELSE IF n.kind = "Array" /\ c.kind = "Array"
       THEN OrElse(AggregateTys(n.ty, c.ty),
                   AggregateConsts(n.const, c.const))
  ELSE IF n.kind = "Foreign" /\ c.kind = "Foreign" THEN Bool(n.name # c.name)
  ELSE IF n.kind = "Error" /\ c.kind = "Error" THEN No
  ELSE Yes

\* MayInvalidate::aggregate_consts: the types first, then the values
AggregateConsts_ValuesOnly(n, c) ==
  LET nv == n.value
      cv == c.value
  IN  IF cv.kind = "BoundVar" THEN No
      ELSE IF nv.kind = "BoundVar" THEN Yes
      ELSE IF nv.kind = "InferenceVar" \/ cv.kind = "InferenceVar" THEN Panic
      ELSE IF nv.kind = "Placeholder" /\ cv.kind = "Placeholder"
           THEN AggregatePlaceholders(nv.index, cv.index)
      ELSE IF nv.kind = "Concrete" /\ cv.kind = "Concrete"
           THEN Bool(~ConstEq(n.ty, nv, cv))
      ELSE Yes

AggregateConsts(n, c) ==
  LET tys == AggregateTys(n.ty, c.ty)
      nv  == n.value
      cv  == c.value
  IN  IF tys = Panic THEN Panic
      ELSE IF tys = Yes THEN Yes
      ELSE IF cv.kind = "BoundVar" THEN No
      ELSE IF nv.kind = "BoundVar" THEN Yes
      ELSE IF nv.kind = "InferenceVar" \/ cv.kind = "InferenceVar" THEN Panic
      ELSE IF nv.kind = "Placeholder" /\ cv.kind = "Placeholder"
           THEN AggregatePlaceholders(nv.index, cv.index)
      ELSE IF nv.kind = "Concrete" /\ cv.kind = "Concrete"
           THEN Bool(~ConstEq(n.ty, nv, cv))
      ELSE Yes

\* MayInvalidate::aggregate_name_and_substs; aggregate_projection_tys and
\* aggregate_opaque_ty_tys pass their name and substitution to it
AggregateNameAndSubsts(new_name, new_substitution, current_name, current_substitution) ==
  IF new_name # current_name THEN Yes
  ELSE IF Len(new_substitution) # Len(current_substitution) THEN Panic
  ELSE AnyPair(new_substitution, current_substitution, 1)

\* SubstitutionExt::may_invalidate
MayInvalidate(self, subst) == AnyPair(self, subst, 1)

-----------------------------------------------------------------------------
(* The substitutions the checked runs compare *)

SeqsUpTo(S, n) == UNION {[1..k -> S] : k \in 1..n}

\* the arguments of multi-slot templates: the two wildcards, two scalars, a
\* free inference variable, a lifetime and a constant
CoreArgs ==
  {TyArg(BoundVar(0)), TyArg(BoundVar(1)), TyArg(Scalar(7)),
   TyArg(Scalar(8)), TyArg(InferenceVar(0)), LifetimeArg(Static),
   ConstArg(Const(Scalar(7), Concrete(1)))}

\* the arguments under a nominal head
NestedArgs ==
  {TyArg(BoundVar(0)), TyArg(Scalar(7)), TyArg(Scalar(8)),
   TyArg(InferenceVar(0)), LifetimeArg(Static)}

\* the lifetimes of one-slot templates: 'static and a placeholder lifetime
Lifetimes == {Static, Placeholder(0)}

ConstTys == {Scalar(7), Scalar(8), InferenceVar(0)}

ConstValues ==
  {BoundVar(0), InferenceVar(0), Placeholder(0), Concrete(1), Concrete(2)}

Consts == {Const(ty, v) : ty \in ConstTys, v \in ConstValues}

LeafTys ==
  {BoundVar(0), BoundVar(1), InferenceVar(0), Placeholder(0), Placeholder(1),
   Scalar(7), Scalar(8), Str, Never, Function, Foreign(0), Foreign(1)}

CompositeTys ==
  {Adt(0, s) : s \in SeqsUpTo(NestedArgs, MaxSubstLen)}
    \cup {Adt(1, <<a>>) : a \in NestedArgs}
    \cup {Tuple(<<TyArg(Scalar(7)), a>>) : a \in NestedArgs}
    \cup {Applied("AliasProjection", 0, <<a>>) : a \in NestedArgs}
    \cup {Slice(t) : t \in {BoundVar(0), Scalar(7), Scalar(8)}}
    \cup {Ref(m, l, t) :
            m \in {"Not", "Mut"}, l \in Lifetimes, t \in {Scalar(7), Scalar(8)}}
    \cup {Raw(m, t) : m \in {"Not", "Mut"}, t \in {Scalar(7), Scalar(8)}}
    \cup {Array(Scalar(7), c) :
            c \in {Const(Scalar(7), Concrete(1)), Const(Scalar(7), Concrete(2)),
                   Const(Scalar(7), BoundVar(0))}}

SingleArgs ==
  {TyArg(t) : t \in LeafTys \cup CompositeTys}
    \cup {LifetimeArg(l) : l \in Lifetimes}
    \cup {ConstArg(c) : c \in Consts}

\* the pairs (new, current) compared: every pair of one-slot substitutions
\* over SingleArgs, and every pair of substitutions of one length up to
\* MaxSubstLen over CoreArgs
Inputs ==
  {<<<<n>>, <<c>>>> : n \in SingleArgs, c \in SingleArgs}
    \cup UNION {[1..k -> CoreArgs] \X [1..k -> CoreArgs] : k \in 2..MaxSubstLen}

InitInvalidate ==
  /\ \E input \in Inputs : new = input[1] /\ current = input[2]
  /\ mi_pc = "ready"
  /\ mi_result = "none"
  /\ TablesNew
  /\ UnifyIdle

\* self.may_invalidate(interner, subst) is called and returns or panics
MayInvalidateCall ==
  /\ mi_pc = "ready"
  /\ mi_result' = MayInvalidate(new, current)
  /\ mi_pc' = "done"
  /\ UNCHANGED <<new, current>>
  /\ UNCHANGED <<tvars, uvars>>

NextInvalidate == MayInvalidateCall

SpecInvalidate == InitInvalidate /\ [][NextInvalidate]_vars

-----------------------------------------------------------------------------
(* The invalidation checker: claims *)

Returned == mi_pc = "done"

OneSlot == Returned /\ Len(new) = 1 /\ Len(current) = 1

\* the argument is a bound-variable wildcard: a bound type variable, or a
\* constant whose value is a bound variable
IsWildcard(a) ==
  \/ a.arg = "Ty" /\ a.ty.kind = "BoundVar"
  \/ a.arg = "Const" /\ a.const.value.kind = "BoundVar"

\* the argument is a free inference variable, as a type or as a constant
IsFreeInferenceVar(a) ==
  \/ a.arg = "Ty" /\ a.ty.kind = "InferenceVar"
  \/ a.arg = "Const" /\ a.const.value.kind = "InferenceVar"

IsConcrete(a) ==
  /\ a.arg \in {"Ty", "Const"}
  /\ ~IsWildcard(a)
  /\ ~IsFreeInferenceVar(a)

IsScalar(a) == a.arg = "Ty" /\ a.ty.kind = "Scalar"

\* the three rules of the wildcard asymmetry at the pair (n, c)
WildcardRules(n, c) ==
  /\ IsWildcard(c) => mi_result = No
  /\ (IsWildcard(n) /\ IsConcrete(c)) => mi_result = Yes
  /\ (IsScalar(n) /\ IsScalar(c)) => mi_result = Bool(n.ty.val # c.ty.val)

\* C6 as claimed: at a paired type or const position the result is false
\* when current is a bound-variable wildcard, whatever new is; true when new
\* is a wildcard and current is concrete; and for two scalars true iff they
\* are unequal.
C6_WildcardAsymmetry ==
  (OneSlot /\ new[1].arg = current[1].arg /\ new[1].arg \in {"Ty", "Const"})
    => WildcardRules(new[1], current[1])

\* C6 as amended: the three rules hold at a paired type position; at a
\* paired const position the types of the two constants are compared first:
\* the call aborts when that comparison aborts, is true when it is true, and
\* only when it is false do the wildcard rules decide from the two values.
C6_WildcardAsymmetryTypesFirst ==
  /\ (OneSlot /\ new[1].arg = "Ty" /\ current[1].arg = "Ty")
       => WildcardRules(new[1], current[1])
  /\ (OneSlot /\ new[1].arg = "Const" /\ current[1].arg = "Const")
       => LET tys == AggregateTys(new[1].const.ty, current[1].const.ty)
          IN  /\ tys = Panic => mi_result = Panic
              /\ tys = Yes => mi_result = Yes
              /\ tys = No => WildcardRules(new[1], current[1])

\* a concrete constant against a wildcard constant of another type: true
C6_Witness ==
  /\ OneSlot
  /\ new[1] = ConstArg(Const(Scalar(8), Concrete(1)))
  /\ current[1] = ConstArg(Const(Scalar(7), BoundVar(0)))
  /\ mi_result = Yes

RECURSIVE TyHasInferenceVar(_)
RECURSIVE ArgHasInferenceVar(_)

\* a free inference variable occurs in the type
TyHasInferenceVar(t) ==
  \/ t.kind = "InferenceVar"
  \/ /\ t.kind \in NameAndSubstsKinds
     /\ \E i \in 1..Len(t.substitution) : ArgHasInferenceVar(t.substitution[i])
  \/ t.kind \in {"Slice", "Ref", "Raw", "Array"} /\ TyHasInferenceVar(t.ty)
  \/ /\ t.kind = "Array"
     /\ \/ t.const.value.kind = "InferenceVar"
        \/ TyHasInferenceVar(t.const.ty)

ArgHasInferenceVar(a) ==
  \/ a.arg = "Ty" /\ TyHasInferenceVar(a.ty)
  \/ /\ a.arg = "Const"
     /\ \/ a.const.value.kind = "InferenceVar"
        \/ TyHasInferenceVar(a.const.ty)

SubstHasInferenceVar(s) == \E i \in 1..Len(s) : ArgHasInferenceVar(s[i])

\* matching n against the pattern c: the bindings of c's bound-variable
\* slots that make c equal to n, with Mismatch among them where no binding
\* can
Mismatch == [slot |-> -1, term |-> [arg |-> "none"]]

RECURSIVE MatchTy(_, _)
RECURSIVE MatchArg(_, _)
RECURSIVE MatchArgs(_, _)

MatchConst(n, c) ==
  MatchTy(n.ty, c.ty)
    \cup (IF c.value.kind = "BoundVar"
          THEN {[slot |-> c.value.index, term |-> ConstArg(n)]}
          ELSE IF n.value = c.value THEN {} ELSE {Mismatch})

MatchTy(n, c) ==
  IF c.kind = "BoundVar" THEN {[slot |-> c.index, term |-> TyArg(n)]}
  ELSE IF n.kind # c.kind THEN {Mismatch}
  ELSE IF c.kind \in NameAndSubstsKinds
       THEN IF n.name = c.name /\ Len(n.substitution) = Len(c.substitution)
            THEN MatchArgs(n.substitution, c.substitution)
            ELSE {Mismatch}
  ELSE IF c.kind = "Slice" THEN MatchTy(n.ty, c.ty)
  ELSE IF c.kind = "Raw"
       THEN IF n.mutability = c.mutability THEN MatchTy(n.ty, c.ty)
            ELSE {Mismatch}
  ELSE IF c.kind = "Ref"
       THEN IF n.mutability = c.mutability /\ n.lifetime = c.lifetime
            THEN MatchTy(n.ty, c.ty)
            ELSE {Mismatch}
  ELSE IF c.kind = "Array" THEN MatchTy(n.ty, c.ty) \cup MatchConst(n.const, c.const)
  ELSE IF n = c THEN {} ELSE {Mismatch}

MatchArg(n, c) ==
  IF n.arg # c.arg THEN {Mismatch}
  ELSE IF c.arg = "Ty" THEN MatchTy(n.ty, c.ty)
  ELSE IF c.arg = "Const" THEN MatchConst(n.const, c.const)
  ELSE IF n = c THEN {} ELSE {Mismatch}

MatchArgs(ns, cs) == UNION {MatchArg(ns[i], cs[i]) : i \in 1..Len(cs)}

\* n is an instance of c under one assignment of terms to c's slots
IsInstance(ns, cs) ==
  /\ Len(ns) = Len(cs)
  /\ Mismatch \notin MatchArgs(ns, cs)
  /\ \A b1, b2 \in MatchArgs(ns, cs) : b1.slot = b2.slot => b1.term = b2.term

\* n is an instance of c when every occurrence of a slot in c is matched on
\* its own
IsInstanceSlotwise(ns, cs) ==
  /\ Len(ns) = Len(cs)
  /\ Mismatch \notin MatchArgs(ns, cs)

\* C7: may_invalidate has no false negatives: when it returns false for two
\* substitutions without free inference variables, new is an instance of
\* current under one consistent assignment of terms to current's
\* bound-variable slots.
C7_NoFalseNegatives ==
  (/\ Returned
   /\ mi_result = No
   /\ ~SubstHasInferenceVar(new)
   /\ ~SubstHasInferenceVar(current))
    => IsInstance(new, current)

KindsDiffer(n, c) == n.arg # c.arg

\* position k of the two argument lists pairs arguments of differing kind
MismatchedAt(ns, cs, k) ==
  k <= Len(ns) /\ k <= Len(cs) /\ KindsDiffer(ns[k], cs[k])

\* some position of the two substitutions, at top level or under an equal
\* nominal head with argument lists of one length, pairs differing kinds
HasKindMismatch(ns, cs) ==
  \/ \E k \in 1..Len(ns) : MismatchedAt(ns, cs, k)
  \/ \E k \in 1..Len(ns) :
       /\ k <= Len(cs)
       /\ ns[k].arg = "Ty" /\ cs[k].arg = "Ty"
       /\ ns[k].ty.kind = cs[k].ty.kind
       /\ ns[k].ty.kind \in NameAndSubstsKinds
       /\ ns[k].ty.name = cs[k].ty.name
       /\ Len(ns[k].ty.substitution) = Len(cs[k].ty.substitution)
       /\ \E j \in 1..Len(ns[k].ty.substitution) :
            MismatchedAt(ns[k].ty.substitution, cs[k].ty.substitution, j)

\* C8 as claimed: two substitutions that pair generic arguments of differing
\* kind at some position, at top level or under an equal nominal head, make
\* may_invalidate abort.
C8_KindMismatchAborts ==
  (Returned /\ HasKindMismatch(new, current)) => mi_result = Panic

\* the pairs before position k of the two lists all compare to false
FalseBefore(ns, cs, k) ==
  \A j \in 1..(k - 1) : AggregateGenericArgs(ns[j], cs[j]) = No

\* the list ns/cs reaches a pair of differing kinds: the first pair that
\* does not compare to false is one of differing kinds
ReachesMismatch(ns, cs) ==
  \E k \in 1..Len(ns) : MismatchedAt(ns, cs, k) /\ FalseBefore(ns, cs, k)

\* a pair that compares to true stands before every pair of differing kinds
TrueBeforeMismatch(ns, cs) ==
  /\ \E k \in 1..Len(ns) : MismatchedAt(ns, cs, k)
  /\ \E j \in 1..Len(ns) :
       /\ j <= Len(cs)
       /\ AggregateGenericArgs(ns[j], cs[j]) = Yes
       /\ FalseBefore(ns, cs, j)
       /\ \A k \in 1..j : ~MismatchedAt(ns, cs, k)

\* C8 as amended: may_invalidate aborts when the comparison reaches a pair
\* of differing kinds, that is when every pair before it in the order of the
\* traversal compares to false, at top level or in the argument lists of a
\* reached pair of types with an equal nominal head; a pair of differing
\* kinds that stands behind a pair comparing to true is never examined, and
\* the call returns true.
C8_ReachedKindMismatchAborts ==
  /\ (Returned /\ ReachesMismatch(new, current)) => mi_result = Panic
  /\ (Returned /\ TrueBeforeMismatch(new, current)) => mi_result = Yes
  /\ (/\ OneSlot
      /\ new[1].arg = "Ty" /\ current[1].arg = "Ty"
      /\ new[1].ty.kind = current[1].ty.kind
      /\ new[1].ty.kind \in NameAndSubstsKinds
      /\ new[1].ty.name = current[1].ty.name
      /\ Len(new[1].ty.substitution) = Len(current[1].ty.substitution))
       => /\ ReachesMismatch(new[1].ty.substitution,
                             current[1].ty.substitution)
               => mi_result = Panic
          /\ TrueBeforeMismatch(new[1].ty.substitution,
                                current[1].ty.substitution)
               => mi_result = Yes

\* a type against a lifetime in the second slot, behind a pair that compares
\* to false: the call aborts
C8_Witness ==
  /\ Returned
  /\ Len(new) = 2
  /\ new[1] = TyArg(Scalar(7)) /\ current[1] = TyArg(Scalar(7))
  /\ new[2].arg = "Ty" /\ current[2].arg = "Lifetime"
  /\ mi_result = Panic

\* C10: a free inference variable, type or const, on either side of a pair
\* the comparison reaches makes may_invalidate abort; two types in the
\* first slot are always reached, and so are the values of two constants
\* in the first slot whose types compare to false.
C10_FreeInferenceVarAborts ==
  (/\ Returned
   /\ \/ new[1].arg = "Ty" /\ current[1].arg = "Ty"
      \/ /\ new[1].arg = "Const" /\ current[1].arg = "Const"
         /\ AggregateTys(new[1].const.ty, current[1].const.ty) = No
   /\ IsFreeInferenceVar(new[1]) \/ IsFreeInferenceVar(current[1]))
    => mi_result = Panic

-----------------------------------------------------------------------------
(* slg.rs: unify_generic_args_into_ex_clause *)

\* an ExClause holds at most this many subgoals in a checked run
MaxSubgoals == 4

\* one unification leaves at most this many residual goals
MaxResidual == 2

\* the goals that occur as subgoals and as residual goals of a unification
SubGoals == {"p", "q"}

\* Literal::Positive and Literal::Negative
Positive(g) == [sign |-> "Positive", goal |-> g]

Negative(g) == [sign |-> "Negative", goal |-> g]

Literals == {Positive(g) : g \in SubGoals} \cup {Negative(g) : g \in SubGoals}

\* the region constraints an ExClause has accumulated
ConstraintSets == {{}, {"'a: 'b"}}

SeqsFromZero(S, n) == UNION {[1..k -> S] : k \in 0..n}

\* the generic arguments handed to the unification
UnifyArgs ==
  {TyArg(Scalar(7)), TyArg(Scalar(8)), TyArg(InferenceVar(0)),
   LifetimeArg(Static)}

\* Fallible<UnificationResult>: Ok with the residual goals, or Err(NoSolution)
UnifyOk(goals) == [tag |-> "Ok", goals |-> goals]

UnifyErr == [tag |-> "Err"]

UnifyPanic == [tag |-> "panic"]

\* InferenceTable::unify: arguments of differing kind are a fatal invariant
\* violation; arguments of one kind either fail to unify or unify and leave
\* residual goals
UnifyOutcomes(a, b) ==
  IF a.arg # b.arg THEN {UnifyPanic}
  ELSE {UnifyErr} \cup {UnifyOk(gs) : gs \in SeqsFromZero(SubGoals, MaxResidual)}

\* into_ex_clause: the residual goals are appended as Positive literals
IntoExClause_ReplaceSubgoals(result, ex) ==
  [ex EXCEPT !.subgoals =
     [i \in 1..Len(result.goals) |-> Positive(result.goals[i])]]

IntoExClause(result, ex) ==
  [ex EXCEPT !.subgoals =
     ex.subgoals \o [i \in 1..Len(result.goals) |-> Positive(result.goals[i])]]

\* unify_generic_args_into_ex_clause, given what infer.unify gave: the `?`
\* returns the error before into_ex_clause runs
UnifyGenericArgsIntoExClause(unified, ex) ==
  IF unified.tag = "Err" THEN [ret |-> "Err", ex_clause |-> ex]
  ELSE IF unified.tag = "panic" THEN [ret |-> "panic", ex_clause |-> ex]
  ELSE [ret |-> "Ok", ex_clause |-> IntoExClause(unified, ex)]

\* a usize that is a position, the panic of an arithmetic overflow, and
\* usize::MAX, the value 0 - 1 wraps to
UsizeIndex(n) == [tag |-> "index", value |-> n]

UsizePanic == [tag |-> "panic"]

UsizeMax == [tag |-> "usize::MAX"]

\* SlgContext::next_subgoal_index: ex_clause.subgoals.len() - 1 in usize;
\* on an empty list the subtraction overflows, which panics in a build with
\* overflow checks and wraps to usize::MAX in one without
NextSubgoalIndex_First(ex) ==
  IF Len(ex.subgoals) >= 1
  THEN {UsizeIndex(0)}
  ELSE {UsizePanic, UsizeMax}

NextSubgoalIndex(ex) ==
  IF Len(ex.subgoals) >= 1
  THEN {UsizeIndex(Len(ex.subgoals) - 1)}
  ELSE {UsizePanic, UsizeMax}

InitUnify ==
  /\ \E lits \in SeqsFromZero(Literals, 2), cs \in ConstraintSets :
       ex_clause = [constraints |-> cs, subgoals |-> lits]
  /\ u_before = ex_clause
  /\ u_unified = [tag |-> "none"]
  /\ u_ret = "none"
  /\ selected = [tag |-> "none"]
  /\ TablesNew
  /\ InvalidateIdle

UnifyCall(a, b) ==
  /\ u_ret # "panic"
  /\ selected.tag # "panic"
  /\ \E unified \in UnifyOutcomes(a, b) :
       LET r == UnifyGenericArgsIntoExClause(unified, ex_clause)
       IN  /\ Len(r.ex_clause.subgoals) <= MaxSubgoals
           /\ ex_clause' = r.ex_clause
           /\ u_ret' = r.ret
           /\ u_unified' = unified
  /\ u_before' = ex_clause
  /\ selected' = [tag |-> "none"]
  /\ UNCHANGED <<tvars, mvars>>

\* SlgContext::next_subgoal_index(&ex_clause) is called on the ExClause
NextSubgoalIndexCall ==
  /\ u_ret # "panic"
  /\ selected.tag # "panic"
  /\ selected' \in NextSubgoalIndex(ex_clause)
  /\ UNCHANGED <<ex_clause, u_before, u_unified, u_ret>>
  /\ UNCHANGED <<tvars, mvars>>

NextUnify ==
  \/ \E a \in UnifyArgs, b \in UnifyArgs : UnifyCall(a, b)
  \/ NextSubgoalIndexCall

SpecUnify == InitUnify /\ [][NextUnify]_vars

-----------------------------------------------------------------------------
(* The unification step: claims *)

\* C9: a call whose unification fails returns the error and leaves the
\* ExClause, its N subgoals included, as it was; a call whose unification
\* succeeds with K residual goals leaves N+K subgoals: the N it had, in
\* their order, then the K residual goals as Positive literals, and the rest
\* of the ExClause as it was.
C9_NoPartialMutation ==
  /\ u_unified.tag = "Err" => (u_ret = "Err" /\ ex_clause = u_before)
  /\ u_unified.tag = "Ok" =>
       LET N == Len(u_before.subgoals)
           K == Len(u_unified.goals)
       IN  /\ u_ret = "Ok"
           /\ Len(ex_clause.subgoals) = N + K
           /\ SubSeq(ex_clause.subgoals, 1, N) = u_before.subgoals
           /\ \A i \in 1..K :
                ex_clause.subgoals[N + i] = Positive(u_unified.goals[i])
           /\ ex_clause.constraints = u_before.constraints

\* a successful call with two residual goals on an ExClause of two subgoals,
\* one of them negative
C9_Witness ==
  /\ u_ret = "Ok"
  /\ Len(u_before.subgoals) = 2
  /\ u_before.subgoals[1].sign = "Negative"
  /\ Len(u_unified.goals) = 2
  /\ Len(ex_clause.subgoals) = 4

Selected == selected.tag # "none"

\* the outcome is a position of the subgoal sequence
ValidPosition(r, ex) ==
  r.tag = "index" /\ r.value >= 0 /\ r.value < Len(ex.subgoals)

\* C11 as claimed: for every ExClause next_subgoal_index returns
\* subgoals.len() - 1, a valid position in the subgoal sequence.
C11_AlwaysLastSubgoal ==
  Selected =>
    /\ ValidPosition(selected, ex_clause)
    /\ selected.value = Len(ex_clause.subgoals) - 1

\* C11 as amended: for every ExClause with at least one subgoal
\* next_subgoal_index returns subgoals.len() - 1, a valid position, the one
\* of the subgoal added last: after a successful unification that appended
\* K >= 1 residual goals it is the last residual appended. For an ExClause
\* with no subgoal it returns no position: the call panics or returns
\* usize::MAX.
C11_LastSubgoalWhenNonEmpty ==
  Selected =>
    IF Len(ex_clause.subgoals) >= 1
    THEN /\ ValidPosition(selected, ex_clause)
         /\ selected.value = Len(ex_clause.subgoals) - 1
         /\ (u_ret = "Ok" /\ Len(u_unified.goals) >= 1) =>
              ex_clause.subgoals[selected.value + 1]
                = Positive(u_unified.goals[Len(u_unified.goals)])
    ELSE /\ selected \in {UsizePanic, UsizeMax}
         /\ ~ValidPosition(selected, ex_clause)

\* the selection after a unification that appended two residual goals to
\* two subgoals: the fourth subgoal, the second residual
C11_Witness ==
  /\ Selected
  /\ u_ret = "Ok"
  /\ Len(u_before.subgoals) = 2
  /\ Len(u_unified.goals) = 2
  /\ u_unified.goals[1] # u_unified.goals[2]
  /\ selected = UsizeIndex(3)

-----------------------------------------------------------------------------
(* The invalidation checker: lifetimes *)

RECURSIVE TyHasLifetime(_)
RECURSIVE ArgHasLifetime(_)

\* a lifetime occurs in the type: as an argument of a nominal head or as the
\* lifetime of a reference
TyHasLifetime(t) ==
  \/ t.kind = "Ref"
  \/ /\ t.kind \in NameAndSubstsKinds
     /\ \E i \in 1..Len(t.substitution) : ArgHasLifetime(t.substitution[i])
  \/ t.kind \in {"Slice", "Raw", "Array"} /\ TyHasLifetime(t.ty)
  \/ t.kind = "Array" /\ TyHasLifetime(t.const.ty)

ArgHasLifetime(a) ==
  \/ a.arg = "Lifetime"
  \/ a.arg = "Ty" /\ TyHasLifetime(a.ty)
  \/ a.arg = "Const" /\ TyHasLifetime(a.const.ty)

RECURSIVE TyHasBoundVar(_)
RECURSIVE ArgHasBoundVar(_)

\* a bound variable occurs in the type
TyHasBoundVar(t) ==
  \/ t.kind = "BoundVar"
  \/ /\ t.kind \in NameAndSubstsKinds
     /\ \E i \in 1..Len(t.substitution) : ArgHasBoundVar(t.substitution[i])
  \/ t.kind \in {"Slice", "Ref", "Raw", "Array"} /\ TyHasBoundVar(t.ty)
  \/ /\ t.kind = "Array"
     /\ \/ t.const.value.kind = "BoundVar"
        \/ TyHasBoundVar(t.const.ty)

ArgHasBoundVar(a) ==
  \/ a.arg = "Ty" /\ TyHasBoundVar(a.ty)
  \/ /\ a.arg = "Const"
     /\ \/ a.const.value.kind = "BoundVar"
        \/ TyHasBoundVar(a.const.ty)

\* the substitution holds neither a bound nor a free inference variable
VariableFree(s) ==
  \A i \in 1..Len(s) : ~ArgHasBoundVar(s[i]) /\ ~ArgHasInferenceVar(s[i])

\* the lists ns/cs reach a pair of lifetimes: two lifetimes stand at one
\* position and every pair before it compares to false
ReachesLifetimePair(ns, cs) ==
  \E k \in 1..Len(ns) :
    /\ k <= Len(cs)
    /\ ns[k].arg = "Lifetime" /\ cs[k].arg = "Lifetime"
    /\ FalseBefore(ns, cs, k)

\* C12: every pair of lifetimes the comparison reaches yields true: the
\* call is true when it reaches two lifetime arguments, at top level or in
\* the argument lists of two types with an equal nominal head, and when it
\* reaches a reference paired with a reference, also when new and current
\* are identical; for an identical, variable-free substitution it is false
\* only if no lifetime occurs in it.
C12_LifetimesAlwaysInvalidate ==
  /\ (Returned /\ ReachesLifetimePair(new, current)) => mi_result = Yes
  /\ (/\ OneSlot
      /\ new[1].arg = "Ty" /\ current[1].arg = "Ty"
      /\ new[1].ty.kind = "Ref" /\ current[1].ty.kind = "Ref")
       => mi_result = Yes
  /\ (/\ OneSlot
      /\ new[1].arg = "Ty" /\ current[1].arg = "Ty"
      /\ new[1].ty.kind = current[1].ty.kind
      /\ new[1].ty.kind \in NameAndSubstsKinds
      /\ new[1].ty.name = current[1].ty.name
      /\ Len(new[1].ty.substitution) = Len(current[1].ty.substitution)
      /\ ReachesLifetimePair(new[1].ty.substitution,
                             current[1].ty.substitution))
       => mi_result = Yes
  /\ (Returned /\ new = current /\ VariableFree(new) /\ mi_result = No)
       => \A i \in 1..Len(new) : ~ArgHasLifetime(new[i])

\* one reference type compared with itself: true
C12_Witness ==
  /\ OneSlot
  /\ new[1] = TyArg(Ref("Not", Static, Scalar(7)))
  /\ current = new
  /\ mi_result = Yes

====
